---- MODULE Spec2Model ----
(***************************************************************************)
(* The two submission scripts submit_aria_circuit.py and                   *)
(* submit_forte_circuit.py: the circuit builder, the three submission      *)
(* functions (submit_to_aria, submit_to_aria_basic, submit_to_forte) and   *)
(* the two command-line entry points.  Every call into the SDK (qiskit,    *)
(* qbraid) either returns or raises an Exception subclass; the remote job  *)
(* created by device.run progresses on its own.                            *)
(***************************************************************************)
EXTENDS Integers, Sequences, FiniteSets, TLC

\* ------------------------------------------------------------------ bounds

\* Script runs followed in one behaviour.
MaxInvocations == 2
\* Command-line arguments after the script name.
MaxArgs == 2

\* ------------------------------------------------------- names and inputs

AriaFns == {"submit_to_aria", "submit_to_aria_basic"}

ErrorMitigationFlag == "--error-mitigation"
ArgWords == {ErrorMitigationFlag, "--other"}

\* sys.argv of the Aria script: the script name, then up to MaxArgs words.
ArgvSet ==
  { <<"submit_aria_circuit.py">> \o a :
      a \in UNION { [1..n -> ArgWords] : n \in 0..MaxArgs } }

\* sys.argv[i], zero-based as in the source.
SysArgv(av, i) == av[i + 1]

\* Exception subclasses a failing SDK call raises.
ExcKinds == {"RuntimeError", "ValueError"}

TerminalStates == {"COMPLETED", "FAILED"}

\* ------------------------------------------------------- circuit builder

QuantumRegister(n) == [i \in 1..n |-> i - 1]
ClassicalRegister(n) == [i \in 1..n |-> i - 1]

Gate(g, qs, cs) == [gate |-> g, qubits |-> qs, clbits |-> cs]

H(circ, q) == Append(circ, Gate("h", <<q>>, <<>>))
CX(circ, c, t) == Append(circ, Gate("cx", <<c, t>>, <<>>))
\* circuit.measure(qreg, creg): one measurement per position, qreg[i] into
\* creg[i], in index order.
Measure(circ, qreg, creg) ==
  circ \o [i \in 1..Len(qreg) |-> Gate("measure", <<qreg[i]>>, <<creg[i]>>)]

\* A builder that measures before the last entangling operation.
create_circuit_measure_early ==
  LET qreg == QuantumRegister(3)
      creg == ClassicalRegister(3)
      c1 == H(<<>>, qreg[1])
      c2 == CX(c1, qreg[1], qreg[2])
      c3 == Measure(c2, qreg, creg)
  IN  [nq |-> Len(qreg), nc |-> Len(creg), ops |-> CX(c3, qreg[2], qreg[3])]

create_3qubit_entangled_circuit ==
  LET qreg == QuantumRegister(3)
      creg == ClassicalRegister(3)
      c1 == H(<<>>, qreg[1])
      c2 == CX(c1, qreg[1], qreg[2])
      c3 == CX(c2, qreg[2], qreg[3])
  IN  [nq |-> Len(qreg), nc |-> Len(creg), ops |-> Measure(c3, qreg, creg)]

NoCircuit == [nq |-> 0, nc |-> 0, ops |-> <<>>]

\* ------------------------------------------------- per-function constants

PrimaryName(f) == IF f \in AriaFns THEN "ionq_aria_1" ELSE "ionq_forte"
FallbackName == "ionq_aria_2"

DeviceName(name) ==
  CASE name = "ionq_aria_1" -> "IonQ Aria-1"
    [] name = "ionq_aria_2" -> "IonQ Aria-2"
    [] OTHER -> name

Shots(f) == IF f = "submit_to_aria" THEN 2500 ELSE 1000

Rate(f) == IF f \in AriaFns THEN 3 ELSE 8

\* The estimate without the per-task fee.
CostCreditsNoFee(rate, s) == rate * s

CostCredits(rate, s) == rate * s + 30

\* Any argument at all selects the error-mitigated run.
AnyArgument(av) == Len(av) > 1

\* len(sys.argv) > 1 and sys.argv[1] == "--error-mitigation"
ErrorMitigationRequested(av) ==
  Len(av) > 1 /\ SysArgv(av, 1) = ErrorMitigationFlag

\* ------------------------------------------------------------ control flow

\* The fallback is resolved after the primary whether or not it resolved.
SuccFallbackAlways(f, stage) ==
  CASE stage = "create_circuit" -> "get_device_primary"
    [] stage = "get_device_primary" ->
         IF f \in AriaFns THEN "get_device_fallback" ELSE "device_status"
    [] stage = "get_device_fallback" -> "device_status"
    [] stage = "device_status" -> "device_run"
    [] stage = "device_run" -> "job_id"
    [] stage = "job_id" -> "job_result"
    [] stage = "job_result" -> "job_status"
    [] stage = "job_status" -> "measurement_counts"
    [] stage = "measurement_counts" -> "cost"
    [] OTHER -> "returned"

\* The statement reached when the call of `stage` returns normally.
Succ(f, stage) ==
  CASE stage = "create_circuit" -> "get_device_primary"
    [] stage = "get_device_primary" -> "device_status"
    [] stage = "get_device_fallback" -> "device_status"
    [] stage = "device_status" -> "device_run"
    [] stage = "device_run" -> "job_id"
    [] stage = "job_id" -> "job_result"
    [] stage = "job_result" -> "job_status"
    [] stage = "job_status" -> "measurement_counts"
    [] stage = "measurement_counts" -> "cost"
    [] OTHER -> "returned"

\* A failed fallback is swallowed and the workflow goes on without a device.
OnRaiseSwallow(f, stage) ==
  IF stage = "get_device_primary" /\ f \in AriaFns
  THEN "get_device_fallback"
  ELSE IF stage = "get_device_fallback" THEN "device_status" ELSE "except"

\* A failed fallback starts the resolution again.
OnRaiseRetry(f, stage) ==
  IF stage = "get_device_primary" /\ f \in AriaFns
  THEN "get_device_fallback"
  ELSE IF stage = "get_device_fallback" THEN "get_device_primary" ELSE "except"

\* A failed submission is submitted again.
OnRaiseResubmit(f, stage) ==
  IF stage = "get_device_primary" /\ f \in AriaFns
  THEN "get_device_fallback"
  ELSE IF stage = "device_run" THEN "device_run" ELSE "except"

\* The handler that receives an exception raised by the call of `stage`:
\* the inner bare except around the primary get_device of the Aria
\* functions, the outer `except Exception` everywhere else.
OnRaise(f, stage) ==
  IF stage = "get_device_primary" /\ f \in AriaFns
  THEN "get_device_fallback"
  ELSE "except"

\* A handler for one exception class only.
OuterCatchesValueError(k) == k = "ValueError"

\* except Exception as e: every Exception subclass.
OuterCatches(k) == k \in ExcKinds

\* job.result() that does not wait for the job.
ResultReadyAlways(st) == TRUE

\* job.result() returns a result only once the job is in a terminal state.
ResultReady(st) == st \in TerminalStates

\* The handler also reports the estimate.
ErrorLinesWithCost(f) ==
  << [text |-> "Error submitting", num |-> 0],
     [text |-> "Estimated cost", num |-> CostCredits(Rate(f), Shots(f))] >>

\* print(f"Error submitting to IonQ ...: {e}")
ErrorLines(f) == << [text |-> "Error submitting", num |-> 0] >>

\* ------------------------------------------------------------------ state

VARIABLES
  pc,           \* the statement the running script is at ("idle": no run)
  script,       \* "aria" or "forte": the script being run
  argv,         \* sys.argv of the run
  fn,           \* the submission function the entry point called
  circuit,      \* local `circuit`
  device,       \* local `device`: the resolved backend name, "none" before
  device_name,  \* local `device_name` of the Aria functions
  shots,        \* local `shots`, 0 before its assignment
  job,          \* local `job`: index of the job handle in jobs, 0 before
  result,       \* whether job.result() has returned a result
  exc,          \* the exception in flight, "none" when there is none
  ret,          \* what the function returned: "unset", "result", "None",
                \* or "raised" when an exception left it
  stdout,       \* the lines printed in this run
  calls,        \* the SDK calls made in this run, in order
  remote,       \* index of the remote job this run's device.run created
  jobs,         \* the remote service: the state of every job ever created
  invocations,  \* script runs started
  reachedRun,   \* runs that reached the device.run statement
  totalRuns     \* device.run calls over all runs

vars == << pc, script, argv, fn, circuit, device, device_name, shots, job,
           result, exc, ret, stdout, calls, remote, jobs, invocations,
           reachedRun, totalRuns >>

locals == << script, argv, fn, circuit, device, device_name, shots, job,
             result, ret, remote >>

Line(t, n) == [text |-> t, num |-> n]
Call(o, n, s, k) == [op |-> o, name |-> n, shots |-> s, ok |-> k]

Init ==
  /\ pc = "idle"
  /\ script = "none"
  /\ argv = <<>>
  /\ fn = "none"
  /\ circuit = NoCircuit
  /\ device = "none"
  /\ device_name = "none"
  /\ shots = 0
  /\ job = 0
  /\ result = FALSE
  /\ exc = "none"
  /\ ret = "unset"
  /\ stdout = <<>>
  /\ calls = <<>>
  /\ remote = 0
  /\ jobs = <<>>
  /\ invocations = 0
  /\ reachedRun = 0
  /\ totalRuns = 0

\* A fresh process: every local of the previous run is gone.
Enter(s, av, f, header) ==
  /\ pc = "idle"
  /\ invocations < MaxInvocations
  /\ invocations' = invocations + 1
  /\ script' = s
  /\ argv' = av
  /\ fn' = f
  /\ stdout' = header
  /\ pc' = "create_circuit"
  /\ circuit' = NoCircuit
  /\ device' = "none"
  /\ device_name' = "none"
  /\ shots' = 0
  /\ job' = 0
  /\ result' = FALSE
  /\ exc' = "none"
  /\ ret' = "unset"
  /\ calls' = <<>>
  /\ remote' = 0
  /\ UNCHANGED << jobs, reachedRun, totalRuns >>

\* submit_aria_circuit.py, __main__ up to the call of the function.
MainAria ==
  \E av \in ArgvSet :
    IF ErrorMitigationRequested(av)
    THEN Enter("aria", av, "submit_to_aria",
               << Line("=== Submitting", 0),
                  Line("Running with error mitigation", 2500) >>)
    ELSE Enter("aria", av, "submit_to_aria_basic",
               << Line("=== Submitting", 0),
                  Line("Running basic version", 1000),
                  Line("Use --error-mitigation flag", 2500) >>)

\* submit_forte_circuit.py, __main__ up to the call of the function.
MainForte ==
  Enter("forte", <<"submit_forte_circuit.py">>, "submit_to_forte",
        << Line("=== Submitting", 0) >>)

\* The call of `stage` raises k: control goes to the enclosing handler.
Raise(stage, k) ==
  /\ pc' = OnRaise(fn, stage)
  /\ exc' = IF OnRaise(fn, stage) = "except" THEN k ELSE "none"

Return(stage) ==
  /\ pc' = Succ(fn, stage)
  /\ exc' = "none"

\* circuit = create_3qubit_entangled_circuit(); print; print(circuit)
CreateCircuit ==
  /\ pc = "create_circuit"
  /\ \/ /\ circuit' = create_3qubit_entangled_circuit
        /\ calls' = Append(calls, Call("create_circuit", "none", 0, TRUE))
        /\ stdout' = stdout \o << Line("Created 3-qubit GHZ entangled circuit", 0),
                                  Line("circuit", 0) >>
        /\ Return("create_circuit")
     \/ \E k \in ExcKinds :
          /\ calls' = Append(calls, Call("create_circuit", "none", 0, FALSE))
          /\ Raise("create_circuit", k)
          /\ UNCHANGED << circuit, stdout >>
  /\ UNCHANGED << script, argv, fn, device, device_name, shots, job, result,
                  ret, remote, jobs, invocations, reachedRun, totalRuns >>

\* device = qbraid.get_device(<primary name>)
GetDevicePrimary ==
  /\ pc = "get_device_primary"
  /\ \/ /\ device' = PrimaryName(fn)
        /\ device_name' = IF fn \in AriaFns THEN DeviceName(PrimaryName(fn))
                          ELSE device_name
        /\ calls' = Append(calls, Call("get_device", PrimaryName(fn), 0, TRUE))
        /\ Return("get_device_primary")
     \/ \E k \in ExcKinds :
          /\ calls' = Append(calls, Call("get_device", PrimaryName(fn), 0, FALSE))
          /\ Raise("get_device_primary", k)
          /\ UNCHANGED << device, device_name >>
  /\ UNCHANGED << script, argv, fn, circuit, shots, job, result, ret, stdout,
                  remote, jobs, invocations, reachedRun, totalRuns >>

\* except: device = qbraid.get_device("ionq_aria_2")
GetDeviceFallback ==
  /\ pc = "get_device_fallback"
  /\ \/ /\ device' = FallbackName
        /\ device_name' = DeviceName(FallbackName)
        /\ calls' = Append(calls, Call("get_device", FallbackName, 0, TRUE))
        /\ Return("get_device_fallback")
     \/ \E k \in ExcKinds :
          /\ calls' = Append(calls, Call("get_device", FallbackName, 0, FALSE))
          /\ Raise("get_device_fallback", k)
          /\ UNCHANGED << device, device_name >>
  /\ UNCHANGED << script, argv, fn, circuit, shots, job, result, ret, stdout,
                  remote, jobs, invocations, reachedRun, totalRuns >>

\* print(Device: ...); print(f"Device status: {device.status()}")
DeviceStatus ==
  /\ pc = "device_status"
  /\ \/ /\ calls' = Append(calls, Call("device.status", device, 0, TRUE))
        /\ stdout' = stdout \o << Line("Device", 0), Line("Device status", 0) >>
        /\ Return("device_status")
        /\ reachedRun' = IF Succ(fn, "device_status") = "device_run"
                         THEN reachedRun + 1 ELSE reachedRun
     \/ \E k \in ExcKinds :
          /\ calls' = Append(calls, Call("device.status", device, 0, FALSE))
          /\ stdout' = Append(stdout, Line("Device", 0))
          /\ Raise("device_status", k)
          /\ UNCHANGED reachedRun
  /\ UNCHANGED << script, argv, fn, circuit, device, device_name, shots, job,
                  result, ret, remote, jobs, invocations, totalRuns >>

\* shots = <preset>; job = device.run(circuit, shots=shots); print(submitted)
\* A call that raises may or may not have created the job remotely.
DeviceRun ==
  /\ pc = "device_run"
  /\ shots' = Shots(fn)
  /\ totalRuns' = totalRuns + 1
  /\ \/ /\ jobs' = Append(jobs, "QUEUED")
        /\ job' = Len(jobs) + 1
        /\ remote' = Len(jobs) + 1
        /\ calls' = Append(calls, Call("device.run", device, Shots(fn), TRUE))
        /\ stdout' = Append(stdout, Line("Job submitted", Shots(fn)))
        /\ Return("device_run")
     \/ \E k \in ExcKinds, created \in BOOLEAN :
          /\ jobs' = IF created THEN Append(jobs, "QUEUED") ELSE jobs
          /\ remote' = IF created THEN Len(jobs) + 1 ELSE remote
          /\ calls' = Append(calls, Call("device.run", device, Shots(fn), FALSE))
          /\ Raise("device_run", k)
          /\ UNCHANGED << job, stdout >>
  /\ UNCHANGED << script, argv, fn, circuit, device, device_name, result, ret,
                  invocations, reachedRun >>

\* print(f"Job ID: {job.id}"); print(Note) in the Aria functions;
\* print("Waiting for job completion...")
JobId ==
  /\ pc = "job_id"
  /\ \/ /\ calls' = Append(calls, Call("job.id", device, 0, TRUE))
        /\ stdout' = stdout \o << Line("Job ID", job) >>
                       \o (IF fn \in AriaFns THEN << Line("Note", Shots(fn)) >>
                           ELSE <<>>)
                       \o << Line("Waiting for job completion", 0) >>
        /\ Return("job_id")
     \/ \E k \in ExcKinds :
          /\ calls' = Append(calls, Call("job.id", device, 0, FALSE))
          /\ Raise("job_id", k)
          /\ UNCHANGED stdout
  /\ UNCHANGED << locals, jobs, invocations, reachedRun, totalRuns >>

\* result = job.result(), returning
JobResultReturns ==
  /\ pc = "job_result"
  /\ ResultReady(jobs[job])
  /\ result' = TRUE
  /\ calls' = Append(calls, Call("job.result", device, 0, TRUE))
  /\ Return("job_result")
  /\ UNCHANGED << script, argv, fn, circuit, device, device_name, shots, job,
                  ret, stdout, remote, jobs, invocations, reachedRun,
                  totalRuns >>

\* result = job.result(), raising: in any state of the job
JobResultRaises ==
  /\ pc = "job_result"
  /\ \E k \in ExcKinds : Raise("job_result", k)
  /\ calls' = Append(calls, Call("job.result", device, 0, FALSE))
  /\ UNCHANGED << locals, stdout, jobs, invocations, reachedRun, totalRuns >>

\* print(f"Job Status: {job.status()}"); print("Results:")
JobStatus ==
  /\ pc = "job_status"
  /\ \/ /\ calls' = Append(calls, Call("job.status", device, 0, TRUE))
        /\ stdout' = stdout \o << Line("Job Status", 0), Line("Results", 0) >>
        /\ Return("job_status")
     \/ \E k \in ExcKinds :
          /\ calls' = Append(calls, Call("job.status", device, 0, FALSE))
          /\ Raise("job_status", k)
          /\ UNCHANGED stdout
  /\ UNCHANGED << locals, jobs, invocations, reachedRun, totalRuns >>

\* print(f"Counts: {result.measurement_counts()}")
MeasurementCounts ==
  /\ pc = "measurement_counts"
  /\ \/ /\ calls' = Append(calls, Call("measurement_counts", device, 0, TRUE))
        /\ stdout' = Append(stdout, Line("Counts", 0))
        /\ Return("measurement_counts")
     \/ \E k \in ExcKinds :
          /\ calls' = Append(calls, Call("measurement_counts", device, 0, FALSE))
          /\ Raise("measurement_counts", k)
          /\ UNCHANGED stdout
  /\ UNCHANGED << locals, jobs, invocations, reachedRun, totalRuns >>

\* cost_credits = <rate> * shots + 30; print; return result
Cost ==
  /\ pc = "cost"
  /\ stdout' = Append(stdout, Line("Estimated cost", CostCredits(Rate(fn), shots)))
  /\ ret' = "result"
  /\ pc' = Succ(fn, "cost")
  /\ UNCHANGED << script, argv, fn, circuit, device, device_name, shots, job,
                  result, exc, calls, remote, jobs, invocations, reachedRun,
                  totalRuns >>

\* except Exception as e: print(error); return None
Except ==
  /\ pc = "except"
  /\ pc' = "returned"
  /\ IF OuterCatches(exc)
     THEN /\ stdout' = stdout \o ErrorLines(fn)
          /\ ret' = "None"
          /\ exc' = "none"
     ELSE /\ ret' = "raised"
          /\ UNCHANGED << stdout, exc >>
  /\ UNCHANGED << script, argv, fn, circuit, device, device_name, shots, job,
                  result, calls, remote, jobs, invocations, reachedRun,
                  totalRuns >>

\* __main__ after the call: if result: print(success) else: print(failed);
\* then the process ends.
MainReport ==
  /\ pc = "returned"
  /\ pc' = "idle"
  /\ stdout' = IF ret = "raised" THEN stdout
               ELSE Append(stdout,
                      Line(IF ret = "result" THEN "=== Job completed successfully! ==="
                           ELSE "=== Job failed ===", 0))
  /\ UNCHANGED << locals, exc, calls, jobs, invocations, reachedRun, totalRuns >>

\* The remote service brings a queued job to a terminal state.
RemoteProgress ==
  \E j \in DOMAIN jobs, st \in TerminalStates :
    /\ jobs[j] = "QUEUED"
    /\ jobs' = [jobs EXCEPT ![j] = st]
    /\ UNCHANGED << pc, locals, exc, stdout, calls, invocations, reachedRun,
                    totalRuns >>

\* The steps of the single-threaded script that do not depend on a failure
\* arriving from outside.
Progress ==
  \/ CreateCircuit \/ GetDevicePrimary \/ GetDeviceFallback \/ DeviceStatus
  \/ DeviceRun \/ JobId \/ JobResultReturns \/ JobStatus \/ MeasurementCounts
  \/ Cost \/ Except \/ MainReport

Next ==
  \/ MainAria
  \/ MainForte
  \/ CreateCircuit
  \/ GetDevicePrimary
  \/ GetDeviceFallback
  \/ DeviceStatus
  \/ DeviceRun
  \/ JobId
  \/ JobResultReturns
  \/ JobResultRaises
  \/ JobStatus
  \/ MeasurementCounts
  \/ Cost
  \/ Except
  \/ MainReport
  \/ RemoteProgress

Spec == Init /\ [][Next]_vars

\* The script is one sequential process: a statement that can run does run.
LiveSpec == Spec /\ WF_vars(Progress)

\* ------------------------------------------------------- reading a run

CallsOf(o) == { i \in DOMAIN calls : calls[i].op = o }
CallsOk(o) == { i \in CallsOf(o) : calls[i].ok }
Resolutions(name) == { i \in CallsOf("get_device") : calls[i].name = name }
ResolvedOk(name) == { i \in Resolutions(name) : calls[i].ok }
ResolveFailed(name) == { i \in Resolutions(name) : ~calls[i].ok }
Printed(t) == \E i \in DOMAIN stdout : stdout[i].text = t
Finished == pc \in {"returned", "idle"} /\ invocations > 0

\* A failed call whose exception is not absorbed by the inner handler of
\* the Aria functions.
OuterFailure ==
  \E i \in DOMAIN calls :
    /\ ~calls[i].ok
    /\ ~(fn \in AriaFns /\ calls[i].op = "get_device"
                        /\ calls[i].name = "ionq_aria_1")

\* The remote job exists and job.result() has not returned.
FailedAfterSubmission ==
  Finished /\ remote # 0 /\ ~result

\* ------------------------------------------------------------------ C1

\* C1: in each of the three submission functions a failure raised by any
\* call of the workflow ends in the printed error message and the return
\* value None; no exception ever leaves the function.
C1_FailureYieldsNone ==
  /\ ret # "raised"
  /\ (pc = "except" => exc \in ExcKinds)
  /\ (Finished /\ OuterFailure) =>
       /\ ret = "None"
       /\ Printed("Error submitting")
       /\ stdout[Len(stdout) - (IF pc = "idle" THEN 1 ELSE 0)].text
            = "Error submitting"

\* A run whose last call, result.measurement_counts(), failed and that
\* returned None.
C1_Witness ==
  /\ pc = "returned"
  /\ ret = "None"
  /\ calls # <<>>
  /\ calls[Len(calls)].op = "measurement_counts"
  /\ ~calls[Len(calls)].ok

\* ------------------------------------------------------------------ C2

\* C2: in the Aria functions, once the primary name has resolved the
\* fallback name is never resolved in that invocation, whatever the later
\* steps do.
C2_PrimaryResolvedNoFallback ==
  (fn \in AriaFns /\ ResolvedOk("ionq_aria_1") # {}) =>
    /\ Resolutions("ionq_aria_2") = {}
    /\ pc # "get_device_fallback"
    /\ device = "ionq_aria_1"

\* The primary resolved and a later step failed.
C2_Witness ==
  /\ fn \in AriaFns
  /\ ResolvedOk("ionq_aria_1") # {}
  /\ pc = "idle"
  /\ ret = "None"

\* ------------------------------------------------------------------ C3

\* C3: in the Aria functions, when the primary and the fallback resolution
\* both fail, no device is used: device stays unset, device.status and
\* device.run are never called, and the function returns None.
C3_BothFailResolutionFails ==
  (fn \in AriaFns /\ ResolveFailed("ionq_aria_1") # {}
                  /\ ResolveFailed("ionq_aria_2") # {}) =>
    /\ device = "none"
    /\ CallsOf("device.status") = {}
    /\ CallsOf("device.run") = {}
    /\ remote = 0
    /\ pc \in {"except", "returned", "idle"}
    /\ (pc # "except" => ret = "None" /\ Printed("Error submitting"))

C3_Witness ==
  /\ fn \in AriaFns
  /\ ResolveFailed("ionq_aria_1") # {}
  /\ ResolveFailed("ionq_aria_2") # {}
  /\ pc = "returned"
  /\ ret = "None"

\* ------------------------------------------------------------------ C4

\* C4 as stated: every finished invocation has called device.run exactly
\* once, so n invocations have made n calls.
C4_ExactlyOneJobPerInvocation ==
  Finished =>
    /\ Cardinality(CallsOf("device.run")) = 1
    /\ (pc = "idle" => totalRuns = invocations)

\* C4 amended: an invocation calls device.run at most once, and exactly
\* once when circuit build, resolution and device.status() succeeded; the
\* calls over all invocations are as many as the invocations that reached
\* the submission, never fewer through deduplication, and every call that
\* returns creates a new job.
C4_AtMostOneJobPerInvocation ==
  /\ Cardinality(CallsOf("device.run")) =
       IF CallsOk("device.status") # {} /\ pc # "device_run" THEN 1 ELSE 0
  /\ totalRuns = reachedRun - (IF pc = "device_run" THEN 1 ELSE 0)
  /\ totalRuns <= invocations
  /\ Len(jobs) <= totalRuns
  /\ (CallsOk("device.run") # {} => job = Len(jobs) /\ remote = job)

\* Two invocations, two calls, two jobs.
C4_Witness ==
  /\ pc = "idle"
  /\ invocations = 2
  /\ totalRuns = 2
  /\ Len(jobs) = 2

\* ------------------------------------------------------------------ C5

ArgsOf(av) == { av[i] : i \in 2..Len(av) }

RunShots == { calls[i].shots : i \in CallsOf("device.run") }

\* C5 as stated: the flag anywhere among the arguments gives a 2500-shot
\* submission, no flag a 1000-shot one; Forte always submits 1000 shots.
C5_FlagAmongArguments ==
  /\ script = "aria" =>
       RunShots \subseteq
         {IF ErrorMitigationFlag \in ArgsOf(argv) THEN 2500 ELSE 1000}
  /\ script = "forte" => RunShots \subseteq {1000}

\* C5 amended: the flag as the first argument gives a 2500-shot
\* submission; every other argument list (none, or another first argument
\* even when the flag follows it) gives a 1000-shot one; Forte always
\* submits 1000 shots.
C5_FlagFirstArgument ==
  /\ script = "aria" =>
       /\ RunShots \subseteq
            {IF Len(argv) >= 2 /\ argv[2] = "--error-mitigation"
             THEN 2500 ELSE 1000}
       /\ fn = (IF Len(argv) >= 2 /\ argv[2] = "--error-mitigation"
                THEN "submit_to_aria" ELSE "submit_to_aria_basic")
  /\ script = "forte" => RunShots \subseteq {1000} /\ fn = "submit_to_forte"

\* The flag given first and the job submitted with 2500 shots.
C5_Witness ==
  /\ script = "aria"
  /\ Len(argv) >= 2
  /\ argv[2] = "--error-mitigation"
  /\ RunShots = {2500}
  /\ CallsOk("device.run") # {}

\* ------------------------------------------------------------------ C6

CostLines == { i \in DOMAIN stdout : stdout[i].text = "Estimated cost" }

\* C6: the printed estimate is rate * shots + 30 of the shots passed to
\* device.run, rate 3 for Aria and 8 for Forte: 3030 and 7530 for the Aria
\* 1000- and 2500-shot runs, 8030 for Forte; the estimate is linear in the
\* shots and is 30 for 0 shots.
C6_CostLinear ==
  /\ \A i \in CostLines :
       /\ RunShots = {shots}
       /\ fn \in AriaFns => stdout[i].num = 3 * shots + 30
       /\ fn = "submit_to_forte" => stdout[i].num = 8 * shots + 30
       /\ fn = "submit_to_aria_basic" => stdout[i].num = 3030
       /\ fn = "submit_to_aria" => stdout[i].num = 7530
       /\ fn = "submit_to_forte" => stdout[i].num = 8030
  /\ Cardinality(CostLines) <= 1
  /\ \A r \in {3, 8} :
       /\ CostCredits(r, 0) = 30
       /\ \A a, b \in {0, 1000, 2500} :
            CostCredits(r, a + b) - CostCredits(r, b) = r * a

C6_Witness ==
  /\ fn = "submit_to_aria"
  /\ \E i \in CostLines : stdout[i].num = 7530

\* ------------------------------------------------------------------ C7

OpsOf(c, g) == { i \in DOMAIN c.ops : c.ops[i].gate = g }

\* C7: the built circuit has 3 quantum positions and 3 classical slots,
\* exactly one superposition operation (on position 0), exactly two
\* entangling operations (0->1 then 1->2) and exactly three measurements;
\* every position is measured exactly once, into the slot of its own index,
\* after all entangling operations.
C7_CircuitShape ==
  circuit # NoCircuit =>
    /\ circuit.nq = 3
    /\ circuit.nc = 3
    /\ Cardinality(OpsOf(circuit, "h")) = 1
    /\ \A i \in OpsOf(circuit, "h") : circuit.ops[i].qubits = <<0>>
    /\ Cardinality(OpsOf(circuit, "cx")) = 2
    /\ \E i, j \in OpsOf(circuit, "cx") :
         /\ i < j
         /\ circuit.ops[i].qubits = <<0, 1>>
         /\ circuit.ops[j].qubits = <<1, 2>>
    /\ Cardinality(OpsOf(circuit, "measure")) = 3
    /\ \A q \in 0..2 :
         /\ Cardinality({ i \in OpsOf(circuit, "measure") :
                            circuit.ops[i].qubits = <<q>> }) = 1
         /\ \A i \in OpsOf(circuit, "measure") :
              circuit.ops[i].qubits = <<q>> => circuit.ops[i].clbits = <<q>>
    /\ \A m \in OpsOf(circuit, "measure"), e \in OpsOf(circuit, "cx") : e < m
    /\ Len(circuit.ops) = 6

C7_Witness ==
  /\ pc = "get_device_primary"
  /\ circuit # NoCircuit
  /\ CallsOk("create_circuit") # {}

\* ------------------------------------------------------------------ C8

\* C8: one attempt per name and no retry: an Aria invocation resolves the
\* primary name at most once and the fallback name at most once, a Forte
\* invocation resolves only ionq_forte, at most once.
C8_SingleAttemptPerName ==
  /\ \A name \in {"ionq_aria_1", "ionq_aria_2", "ionq_forte"} :
       Cardinality(Resolutions(name)) <= 1
  /\ Cardinality(CallsOf("get_device")) <= (IF fn \in AriaFns THEN 2 ELSE 1)
  /\ fn = "submit_to_forte" =>
       \A i \in CallsOf("get_device") : calls[i].name = "ionq_forte"
  /\ fn \in AriaFns =>
       \A i \in CallsOf("get_device") :
         calls[i].name \in {"ionq_aria_1", "ionq_aria_2"}

\* Both names tried, once each, and both failed.
C8_Witness ==
  /\ fn \in AriaFns
  /\ Cardinality(CallsOf("get_device")) = 2
  /\ ResolveFailed("ionq_aria_2") # {}
  /\ Finished

\* ------------------------------------------------------------------ C9

Reported ==
  \/ Printed("Job Status")
  \/ Printed("Counts")
  \/ Printed("Estimated cost")
  \/ ret = "result"
  \/ result

\* C10 as stated, its last part: an invocation that reached job.result()
\* returns only when the remote job is in a terminal state.
C10_NeverReturnsWhileJobPending ==
  (Finished /\ CallsOf("job.result") # {}) => jobs[job] \in TerminalStates

\* C10 amended: status, counts and estimate are printed and the result
\* returned only after the job reached a terminal state; while the job is
\* not terminal the invocation leaves job.result() only through a failure
\* raised by it (and then returns None); once the job is terminal the
\* invocation eventually returns.
C10_BlocksUntilTerminal ==
  /\ [](Reported => (job \in DOMAIN jobs /\ jobs[job] \in TerminalStates))
  /\ [][(pc = "job_result" /\ jobs[job] \notin TerminalStates
                           /\ pc' # "job_result")
          => (pc' = "except" /\ ~result')]_vars
  /\ ((pc = "job_result" /\ jobs[job] \in TerminalStates) ~> (pc = "returned"))

\* The job reached a terminal state and the result was returned after the
\* estimate was printed.
C10_Witness ==
  /\ pc = "returned"
  /\ ret = "result"
  /\ Printed("Estimated cost")
  /\ jobs[job] \in TerminalStates

====
